---- MODULE Spec2Model ----
(***************************************************************************)
(* BaseTrackerPredictor (vggsfm/models/track_modules/base_track_predictor) *)
(* as a state machine: construction (__init__) and one forward call, cut   *)
(* at the statements of its iterative refinement loop.                     *)
(*                                                                         *)
(* Tensors are modelled by what the claims read of them:                   *)
(*   - a coordinate is a pair of exact rationals [n, d] (the arithmetic    *)
(*     of lines 92-93, 177 and 185-187 on real numbers; floating-point     *)
(*     rounding is not modelled);                                          *)
(*   - the batch and track axes are flattened into Points (the code's own  *)
(*     reshape to B * N), the frame axis is Frames, frame 0 the reference; *)
(*   - a latent feature is the coordinate its seed was sampled at and the  *)
(*     sum of the residual increments added since;                         *)
(*   - the channel axis of the update function's input is a sequence of    *)
(*     tags, one per channel, naming where the channel came from;          *)
(*   - the learned networks (updateformer, ffeat_updater, vis_predictor)   *)
(*     and the correlation blocks are uninterpreted: an output is a value  *)
(*     chosen from a small set, or a record of the arguments it was        *)
(*     computed from.                                                      *)
(***************************************************************************)
EXTENDS Integers, Sequences, FiniteSets, TLC

VARIABLES
    pc,               \* position in __init__ / forward
    err,              \* why the call failed ("" while it has not)
    self,             \* the module's fields
    inp,              \* the arguments of the forward call
    query_points,     \* forward's local after lines 91-93
    coords,           \* [Frames -> [Points -> coordinate]]
    coords_backup,
    track_feats,      \* [Frames -> [Points -> latent feature]]
    query_track_feat,
    fcorr_fn,         \* the correlation block
    fcorrs,           \* the correlation volume sampled in this iteration
    transformer_input,
    delta,            \* the update function's output of this iteration
    coord_preds,
    vis_e,
    itr,              \* iterations completed
    ret,              \* the returned tuple
    uf_calls,         \* history: invocations of self.updateformer
    hist,             \* history: coords and track_feats at the end of each iteration
    runB              \* a second call on the same module, run in lockstep

vars == <<pc, err, self, inp, query_points, coords, coords_backup, track_feats,
          query_track_feat, fcorr_fn, fcorrs, transformer_input, delta,
          coord_preds, vis_e, itr, ret, uf_calls, hist, runB>>

\* ------------------------------------------------------------------ bounds

MaxQ == 1
MaxDownRatio == 2
MaxStride == 2
MaxIters == 2
MaxLevels == 2
MaxRadius == 1
MaxLatent == 2

\* S = 2 frames, B * N = 1 point
Frames == {0, 1}
Points == {0}

None == << >>

\* --------------------------------------------------------------- rationals

Abs(x) == IF x < 0 THEN 0 - x ELSE x

RECURSIVE GCD(_, _)
GCD(a, b) == IF b = 0 THEN a ELSE GCD(b, a % b)

Norm(n, d) ==
    LET g == GCD(Abs(n), d) IN [n |-> n \div g, d |-> d \div g]

FromInt(i) == [n |-> i, d |-> 1]

RDiv(r, k) == Norm(r.n, r.d * k)

RMul(r, k) == Norm(r.n * k, r.d)

RAdd(r, s) == Norm(r.n * s.d + s.n * r.d, r.d * s.d)

VDiv(v, k) == <<RDiv(v[1], k), RDiv(v[2], k)>>

VMul(v, k) == <<RMul(v[1], k), RMul(v[2], k)>>

VAdd(v, dc) == <<RAdd(v[1], FromInt(dc[1])), RAdd(v[2], FromInt(dc[2]))>>

Min(a, b) == IF a < b THEN a ELSE b

Rep(tag, n) == [i \in 1..n |-> tag]

\* ------------------------------------------------------------ construction

\* line 45
base_dim(levels, radius, latent) ==
    levels * ((radius * 2 + 1) * (radius * 2 + 1)) + latent * 2

transformer_dim_wrong(levels, radius, latent, fine) ==
    LET base == base_dim(levels, radius, latent) IN
    IF fine THEN base + (IF base % 2 = 0 THEN 4 ELSE 5)
    ELSE base + (4 - (base % 4))

\* lines 45-53
transformer_dim_of(levels, radius, latent, fine) ==
    LET base == base_dim(levels, radius, latent) IN
    IF fine THEN base + (IF base % 2 = 0 THEN 4 ELSE 5)
    ELSE base + ((4 - (base % 4)) % 4)

\* line 44
flows_emb_dim_of(latent) == latent \div 2

\* width of get_2d_embedding(flows, C, cat_coords=False)
get_2d_embedding_width(C) == C

\* fcorrs.shape[3]
corrdim_of(levels, radius) == levels * ((radius * 2 + 1) * (radius * 2 + 1))

\* ------------------------------------------------------------ forward, pure

ShapesOK_no_assert(i) == i.fmaps_rank = 5

\* lines 82-85
ShapesOK(i) == i.fmaps_rank = 5 /\ i.D = 2

\* lines 91-93
scale_query(q, down_ratio, stride) ==
    IF down_ratio > 1
    THEN [p \in Points |-> VDiv(VDiv(q[p], down_ratio), stride)]
    ELSE q

\* line 97
init_coords(q) == [s \in Frames |-> q]

\* line 100: the feature sampled at a coordinate
sample_features4d(c) == [p \in Points |-> [at |-> c[p], acc |-> 0]]

\* line 103
init_track_feats(qf) == [s \in Frames |-> qf]

corr_block_stale(fn, feats, efficient) ==
    IF efficient \/ fn.corrs # None THEN fn ELSE [fn EXCEPT !.corrs = feats]

\* line 125: CorrBlock.corr(track_feats); EfficientCorrBlock keeps no volume
corr_block(fn, feats, efficient) ==
    IF efficient THEN fn ELSE [fn EXCEPT !.corrs = feats]

\* lines 123, 126: the sampled volume, by what it was computed from
corr_sample(fn, c, feats, efficient) ==
    [kind |-> fn.kind, at |-> c, of |-> IF efficient THEN feats ELSE fn.corrs]

\* lines 135-138
flows_emb_of(s) ==
    Rep("emb", get_2d_embedding_width(s.flows_emb_dim)) \o Rep("flow", 2)

\* lines 140-143
concat_input(s) ==
    flows_emb_of(s) \o Rep("corr", corrdim_of(s.corr_levels, s.corr_radius))
                    \o Rep("feat", s.latent_dim)

\* lines 145-149
pad_input(ti, fe, tdim) ==
    IF Len(ti) < tdim
    THEN LET pad_dim == tdim - Len(ti) IN ti \o Rep("zero", Min(pad_dim, Len(fe)))
    ELSE ti

\* the outputs of self.updateformer for one (track, frame): delta_coords_ and
\* the increment ffeat_updater(norm(delta_feats_))
UFVals == {[dc |-> <<0, 0>>, df |-> 0], [dc |-> <<1, -1>>, df |-> 1]}

UFOutputs == [Frames -> [Points -> UFVals]]

\* lines 169-174
update_feats(feats, out) ==
    [s \in Frames |-> [p \in Points |->
        [feats[s][p] EXCEPT !.acc = @ + out[s][p].df]]]

\* line 177
update_coords(c, out) ==
    [s \in Frames |-> [p \in Points |-> VAdd(c[s][p], out[s][p].dc)]]

force_query_none(c, backup) == c

\* line 181
force_query(c, backup) == [c EXCEPT ![0] = backup[0]]

rescale_stride_only(c, down_ratio, stride) ==
    [s \in Frames |-> [p \in Points |-> VMul(c[s][p], stride)]]

\* lines 184-187
rescale(c, down_ratio, stride) ==
    IF down_ratio > 1
    THEN [s \in Frames |-> [p \in Points |-> VMul(VMul(c[s][p], stride), down_ratio)]]
    ELSE [s \in Frames |-> [p \in Points |-> VMul(c[s][p], stride)]]

\* lines 185, 187: coord_preds.append
append_pred(preds, snap) == Append(preds, snap)

\* sigmoid(self.vis_predictor(f)), by its argument
vis_of(feats) == [s \in Frames |-> [p \in Points |-> [sigmoid_of |-> feats[s][p]]]]

vis_out_always(s, feats) == vis_of(feats)

\* lines 190-194
vis_out(s, feats) == IF ~s.fine THEN vis_of(feats) ELSE None

loop_continues_once_more(i, iters) == i < iters + 1

\* line 116
loop_continues(i, iters) == i < iters

\* ------------------------------------------------------------- second call

NoShadow == [on |-> FALSE]

\* the caller's arguments for the second call of the round trip: query points
\* divided by down_ratio and stride beforehand, down_ratio = 1
shadow_call(q, down_ratio, stride) ==
    [on |-> TRUE,
     inp_q |-> [p \in Points |-> VDiv(q[p], down_ratio * stride)],
     down_ratio |-> 1,
     query_points |-> None, coords |-> None, coords_backup |-> None,
     track_feats |-> None, coord_preds |-> << >>]

\* lines 91-105 on the second call
shadow_init(b, stride) ==
    LET q == scale_query(b.inp_q, b.down_ratio, stride)
        c == init_coords(q)
    IN [b EXCEPT !.query_points = q, !.coords = c, !.coords_backup = c,
                 !.track_feats = init_track_feats(sample_features4d(c[0]))]

\* self.updateformer is one deterministic function: on the input the first
\* call gave it, it returns what it returned there
shadow_outputs(b, c, feats, out) ==
    IF b.coords = c /\ b.track_feats = feats THEN {out} ELSE UFOutputs

\* lines 169-187 on the second call
shadow_refine(b, out, stride) ==
    LET f == update_feats(b.track_feats, out)
        c == force_query(update_coords(b.coords, out), b.coords_backup)
    IN [b EXCEPT !.track_feats = f, !.coords = c,
                 !.coord_preds = append_pred(@, rescale(c, b.down_ratio, stride))]

\* -------------------------------------------------------------------- Init

InitWith(Strides, Levels, Radii, Latents, Qs, Ds, Its, pair) ==
    /\ pc = "new"
    /\ err = ""
    /\ \E st \in Strides, lv \in Levels, r \in Radii, l \in Latents,
          f \in BOOLEAN, e \in BOOLEAN :
          self = [stride |-> st, corr_levels |-> lv, corr_radius |-> r,
                  latent_dim |-> l, fine |-> f, efficient_corr |-> e,
                  flows_emb_dim |-> 0, transformer_dim |-> 0,
                  vis_predictor |-> FALSE]
    /\ \E a \in Qs, d \in Ds, n \in Its, rf \in BOOLEAN,
          shape \in {<<2, 5>>, <<3, 5>>, <<2, 4>>} :
          inp = [query_points |-> [p \in Points |-> <<FromInt(a), FromInt(a + 1)>>],
                 D |-> shape[1], fmaps_rank |-> shape[2], iters |-> n,
                 return_feat |-> rf, down_ratio |-> d]
    /\ query_points = None
    /\ coords = None
    /\ coords_backup = None
    /\ track_feats = None
    /\ query_track_feat = None
    /\ fcorr_fn = None
    /\ fcorrs = None
    /\ transformer_input = << >>
    /\ delta = None
    /\ coord_preds = << >>
    /\ vis_e = None
    /\ itr = 0
    /\ ret = None
    /\ uf_calls = 0
    /\ hist = << >>
    /\ runB = IF pair
              THEN shadow_call(inp.query_points, inp.down_ratio, self.stride)
              ELSE NoShadow

\* one call, a small configuration whose widths fit (latent_dim = 2) or do
\* not (latent_dim = 1), every scale
Init ==
    InitWith(1..MaxStride, {2}, {0}, 1..MaxLatent, 1..MaxQ, 1..MaxDownRatio,
             0..MaxIters, FALSE)

\* one call of one iteration, every configuration
InitDims ==
    InitWith({1}, 1..MaxLevels, 0..MaxRadius, 1..MaxLatent, {1}, {1}, {1}, FALSE)

\* the round trip: the call with down_ratio > 1 and, beside it, the call with
\* pre-divided query points and down_ratio = 1
InitPair ==
    InitWith(1..MaxStride, {2}, {0}, 1..MaxLatent, 1..MaxQ, 2..MaxDownRatio,
             0..MaxIters, TRUE)

\* ----------------------------------------------------------------- actions

\* __init__, lines 35-74
Construct ==
    /\ pc = "new"
    /\ self' = [self EXCEPT
                 !.flows_emb_dim = flows_emb_dim_of(self.latent_dim),
                 !.transformer_dim =
                     transformer_dim_of(self.corr_levels, self.corr_radius,
                                        self.latent_dim, self.fine),
                 !.vis_predictor = ~self.fine]
    /\ pc' = "ready"
    /\ UNCHANGED <<err, inp, query_points, coords, coords_backup, track_feats,
                   query_track_feat, fcorr_fn, fcorrs, transformer_input, delta,
                   coord_preds, vis_e, itr, ret, uf_calls, hist, runB>>

\* forward, lines 82-85
CheckShapes ==
    /\ pc = "ready"
    /\ IF ShapesOK(inp)
       THEN pc' = "init" /\ err' = err
       ELSE pc' = "failed" /\ err' = "shape"
    /\ UNCHANGED <<self, inp, query_points, coords, coords_backup, track_feats,
                   query_track_feat, fcorr_fn, fcorrs, transformer_input, delta,
                   coord_preds, vis_e, itr, ret, uf_calls, hist, runB>>

\* forward, lines 91-113
InitTracks ==
    /\ pc = "init"
    /\ query_points' = scale_query(inp.query_points, inp.down_ratio, self.stride)
    /\ coords' = init_coords(query_points')
    /\ query_track_feat' = sample_features4d(coords'[0])
    /\ track_feats' = init_track_feats(query_track_feat')
    /\ coords_backup' = coords'
    /\ fcorr_fn' = [kind |-> IF self.efficient_corr THEN "EfficientCorrBlock"
                                                     ELSE "CorrBlock",
                    corrs |-> None]
    /\ coord_preds' = << >>
    /\ runB' = IF runB.on THEN shadow_init(runB, self.stride) ELSE runB
    /\ pc' = "loop"
    /\ UNCHANGED <<err, self, inp, fcorrs, transformer_input, delta, vis_e, itr,
                   ret, uf_calls, hist>>

\* forward, line 116
LoopHead ==
    /\ pc = "loop"
    /\ pc' = IF loop_continues(itr, inp.iters) THEN "corr" ELSE "finalize"
    /\ UNCHANGED <<err, self, inp, query_points, coords, coords_backup,
                   track_feats, query_track_feat, fcorr_fn, fcorrs,
                   transformer_input, delta, coord_preds, vis_e, itr, ret,
                   uf_calls, hist, runB>>

\* forward, lines 119-130
Correlate ==
    /\ pc = "corr"
    /\ fcorr_fn' = corr_block(fcorr_fn, track_feats, self.efficient_corr)
    /\ fcorrs' = corr_sample(fcorr_fn', coords, track_feats, self.efficient_corr)
    /\ pc' = "assemble"
    /\ UNCHANGED <<err, self, inp, query_points, coords, coords_backup,
                   track_feats, query_track_feat, transformer_input, delta,
                   coord_preds, vis_e, itr, ret, uf_calls, hist, runB>>

\* forward, lines 133-149
Assemble ==
    /\ pc = "assemble"
    /\ transformer_input' =
           pad_input(concat_input(self), flows_emb_of(self), self.transformer_dim)
    /\ pc' = "update"
    /\ UNCHANGED <<err, self, inp, query_points, coords, coords_backup,
                   track_feats, query_track_feat, fcorr_fn, fcorrs, delta,
                   coord_preds, vis_e, itr, ret, uf_calls, hist, runB>>

\* forward, lines 151-167: the positional embedding, of width transformer_dim,
\* is added to the input (line 157) and the sum goes to self.updateformer
UpdateFormer ==
    /\ pc = "update"
    /\ \/ /\ Len(transformer_input) # self.transformer_dim
          /\ pc' = "failed"
          /\ err' = "width"
          /\ UNCHANGED <<delta, uf_calls, runB>>
       \/ /\ Len(transformer_input) = self.transformer_dim
          /\ \E out \in UFOutputs : delta' = out
          /\ uf_calls' = uf_calls + 1
          /\ pc' = "feats"
          /\ err' = err
          /\ runB' = runB
    /\ UNCHANGED <<self, inp, query_points, coords, coords_backup, track_feats,
                   query_track_feat, fcorr_fn, fcorrs, transformer_input,
                   coord_preds, vis_e, itr, ret, hist>>

\* forward, lines 169-174
UpdateFeats ==
    /\ pc = "feats"
    /\ track_feats' = update_feats(track_feats, delta)
    /\ pc' = "coords"
    /\ UNCHANGED <<err, self, inp, query_points, coords, coords_backup,
                   query_track_feat, fcorr_fn, fcorrs, transformer_input, delta,
                   coord_preds, vis_e, itr, ret, uf_calls, hist, runB>>

\* forward, line 177
UpdateCoords ==
    /\ pc = "coords"
    /\ coords' = update_coords(coords, delta)
    /\ pc' = "anchor"
    /\ UNCHANGED <<err, self, inp, query_points, coords_backup, track_feats,
                   query_track_feat, fcorr_fn, fcorrs, transformer_input, delta,
                   coord_preds, vis_e, itr, ret, uf_calls, hist, runB>>

\* forward, line 181
ForceQuery ==
    /\ pc = "anchor"
    /\ coords' = force_query(coords, coords_backup)
    /\ pc' = "append"
    /\ UNCHANGED <<err, self, inp, query_points, coords_backup, track_feats,
                   query_track_feat, fcorr_fn, fcorrs, transformer_input, delta,
                   coord_preds, vis_e, itr, ret, uf_calls, hist, runB>>

\* coords and track_feats as this iteration found them
iter_start ==
    IF itr = 0
    THEN [coords |-> coords_backup,
          track_feats |-> init_track_feats(query_track_feat)]
    ELSE hist[itr]

\* forward, lines 183-187 and the end of the loop body; the second call
\* takes its whole iteration here
AppendPred ==
    /\ pc = "append"
    /\ coord_preds' =
           append_pred(coord_preds, rescale(coords, inp.down_ratio, self.stride))
    /\ hist' = Append(hist, [coords |-> coords, track_feats |-> track_feats])
    /\ itr' = itr + 1
    /\ \E outB \in (IF runB.on
                    THEN shadow_outputs(runB, iter_start.coords,
                                        iter_start.track_feats, delta)
                    ELSE {delta}) :
          runB' = IF runB.on THEN shadow_refine(runB, outB, self.stride) ELSE runB
    /\ pc' = "loop"
    /\ UNCHANGED <<err, self, inp, query_points, coords, coords_backup,
                   track_feats, query_track_feat, fcorr_fn, fcorrs,
                   transformer_input, delta, vis_e, ret, uf_calls>>

\* forward, lines 189-194
Finalize ==
    /\ pc = "finalize"
    /\ vis_e' = vis_out(self, track_feats)
    /\ pc' = "return"
    /\ UNCHANGED <<err, self, inp, query_points, coords, coords_backup,
                   track_feats, query_track_feat, fcorr_fn, fcorrs,
                   transformer_input, delta, coord_preds, itr, ret, uf_calls,
                   hist, runB>>

\* forward, lines 196-199
Return ==
    /\ pc = "return"
    /\ ret' = IF inp.return_feat
              THEN <<coord_preds, vis_e, track_feats, query_track_feat>>
              ELSE <<coord_preds, vis_e>>
    /\ pc' = "done"
    /\ UNCHANGED <<err, self, inp, query_points, coords, coords_backup,
                   track_feats, query_track_feat, fcorr_fn, fcorrs,
                   transformer_input, delta, coord_preds, vis_e, itr, uf_calls,
                   hist, runB>>

Next ==
    \/ Construct
    \/ CheckShapes
    \/ InitTracks
    \/ LoopHead
    \/ Correlate
    \/ Assemble
    \/ UpdateFormer
    \/ UpdateFeats
    \/ UpdateCoords
    \/ ForceQuery
    \/ AppendPred
    \/ Finalize
    \/ Return

Spec == Init /\ [][Next]_vars

SpecDims == InitDims /\ [][Next]_vars

SpecPair == InitPair /\ [][Next]_vars

\* forward is one synchronous call: a statement that can run does run
FairSpec == Init /\ [][Next]_vars /\ WF_vars(Next)

\* ------------------------------------------------------------------ claims

started == coords # None

\* C1: once the tracks are initialised, and except between the coordinate
\* update (line 177) and the re-anchoring (line 181) of one iteration, the
\* reference-frame coordinate of every point is the scaled query coordinate
\* backed up at initialisation, whatever delta the update function returned
\* for the reference frame; so it is at the end of every iteration.
C1_AnchorInvariant ==
    (started /\ pc # "anchor") =>
        \A p \in Points :
            /\ coords_backup[0][p] = query_points[p]
            /\ coords[0][p] = coords_backup[0][p]
            /\ \A i \in 1..Len(hist) : hist[i].coords[0][p] = coords_backup[0][p]

C1_Witness ==
    /\ pc = "append"
    /\ itr = 1
    /\ \E p \in Points : delta[0][p].dc # <<0, 0>>
    /\ inp.down_ratio > 1

\* C2: a call that returns has made exactly iters invocations of the update
\* function and appended exactly iters predictions, prediction i being the
\* rescaled coordinates left by iteration i, in order; during the call one
\* prediction has been appended per completed iteration; and every call
\* ends (returns or fails).
C2_IterationCount ==
    /\ [](Len(coord_preds) = itr /\ Len(hist) = itr /\ itr <= inp.iters)
    /\ [](pc = "done" =>
            /\ Len(ret[1]) = inp.iters
            /\ uf_calls = inp.iters
            /\ \A i \in 1..Len(ret[1]) :
                  ret[1][i] = rescale(hist[i].coords, inp.down_ratio, self.stride))
    /\ <>(pc = "done" \/ pc = "failed")

C2_Witness ==
    /\ pc = "done"
    /\ inp.iters = 2
    /\ Len(ret[1]) = 2
    /\ ret[1][1] # ret[1][2]

\* C3: the internal reference coordinate is q / (down_ratio * stride) and the
\* reference-frame entry of every prediction is q, for every down_ratio >= 1.
C3_SourceUnitAnchor ==
    started =>
        \A p \in Points :
            /\ query_points[p] =
                   VDiv(inp.query_points[p], inp.down_ratio * self.stride)
            /\ \A i \in 1..Len(coord_preds) :
                   coord_preds[i][0][p] = inp.query_points[p]

final_feats ==
    IF inp.iters = 0 THEN init_track_feats(query_track_feat)
    ELSE hist[inp.iters].track_feats

\* C5: the visibility head is constructed iff fine = False; the returned
\* visibility is present iff fine = False, and then it is the head applied to
\* the final track_feats, one value per frame and point; no visibility value
\* exists before Finalize.
C5_VisibilityPresence ==
    /\ (pc # "new" => (self.vis_predictor <=> ~self.fine))
    /\ (pc \notin {"return", "done"} => vis_e = None)
    /\ (pc = "done" =>
          /\ (ret[2] # None) <=> ~self.fine
          /\ ~self.fine =>
                /\ DOMAIN ret[2] = Frames
                /\ \A s \in Frames : DOMAIN ret[2][s] = Points
                /\ \A s \in Frames : \A p \in Points :
                      ret[2][s][p] = [sigmoid_of |-> final_feats[s][p]])

C5_Witness ==
    /\ pc = "done"
    /\ ~self.fine
    /\ inp.iters = 2
    /\ ret[2] # None
    /\ \E s \in Frames : \E p \in Points : track_feats[s][p].acc > 0

\* C6: the assembled input is never shorter than the concatenation, keeps it
\* as a prefix, and when the concatenation is narrower than transformer_dim
\* it is followed by exactly transformer_dim - w zeros.
C6_PadNoTruncate ==
    (transformer_input # << >>) =>
        LET raw == concat_input(self)
            w == Len(raw)
        IN /\ Len(transformer_input) >= w
           /\ SubSeq(transformer_input, 1, w) = raw
           /\ w < self.transformer_dim =>
                 /\ Len(transformer_input) = self.transformer_dim
                 /\ \A k \in (w + 1)..Len(transformer_input) :
                       transformer_input[k] = "zero"

\* C7: no configuration whose transformer_dim is narrower than the
\* concatenated per-step input is accepted by the constructor, and no call
\* fails on a width mismatch.
C7_FailFastAtConstruction ==
    /\ pc # "new" => Len(concat_input(self)) <= self.transformer_dim
    /\ err # "width"

\* C8: when the query points' last dimension is not 2 or the feature maps are
\* not of rank 5, nothing of the call happens: no tracks are initialised, no
\* correlation block is built, no iteration runs, the update function is
\* never invoked, nothing is returned.
C8_ShapeViolationFatal ==
    (inp.D # 2 \/ inp.fmaps_rank # 5) =>
        /\ pc \in {"new", "ready", "failed"}
        /\ coords = None
        /\ track_feats = None
        /\ fcorr_fn = None
        /\ fcorrs = None
        /\ uf_calls = 0
        /\ itr = 0
        /\ coord_preds = << >>
        /\ vis_e = None
        /\ ret = None

C8_Witness ==
    /\ pc = "failed"
    /\ err = "shape"
    /\ inp.D # 2
    /\ inp.fmaps_rank = 5

\* C9: after construction, transformer_dim is, outside fine mode, the
\* smallest multiple of 4 that is >= base = corr_levels * (2 * corr_radius
\* + 1)^2 + 2 * latent_dim, and in fine mode base + 4 for an even base and
\* base + 5 for an odd one.
C9_TransformerDim ==
    pc # "new" =>
        LET base == base_dim(self.corr_levels, self.corr_radius, self.latent_dim)
            td == self.transformer_dim
        IN IF self.fine
           THEN (base % 2 = 0 => td = base + 4) /\ (base % 2 = 1 => td = base + 5)
           ELSE td % 4 = 0 /\ 0 <= td - base /\ td - base < 4

C9_Witness ==
    /\ pc = "ready"
    /\ ~self.fine
    /\ base_dim(self.corr_levels, self.corr_radius, self.latent_dim) % 4 = 0
    /\ self.transformer_dim
           = base_dim(self.corr_levels, self.corr_radius, self.latent_dim)

RefineOrder ==
    {<<"loop", "corr">>, <<"corr", "assemble">>, <<"assemble", "update">>,
     <<"update", "feats">>, <<"feats", "coords">>, <<"coords", "anchor">>,
     <<"anchor", "append">>, <<"append", "loop">>}

InRefine == {"corr", "assemble", "update", "feats", "coords", "anchor", "append"}

C10_OrderStep ==
    /\ (pc \in InRefine \/ pc' \in InRefine) =>
           (<<pc, pc'>> \in RefineOrder \/ (pc = "update" /\ pc' = "failed"))
    /\ fcorrs' # fcorrs => pc = "corr"
    /\ uf_calls' # uf_calls => pc = "update" /\ uf_calls' = uf_calls + 1
    /\ delta' # delta => pc = "update"
    /\ (started /\ track_feats' # track_feats) => pc = "feats"
    /\ (started /\ coords' # coords) => pc \in {"coords", "anchor"}
    /\ coord_preds' # coord_preds => pc = "append"
    /\ pc' = "corr" =>
           Len(coord_preds) = itr /\ uf_calls = itr /\ Len(hist) = itr

C10_ReadsLeft ==
    (pc \in InRefine \ {"corr"}) =>
        /\ fcorrs.at = iter_start.coords
        /\ fcorrs.of = iter_start.track_feats
        /\ fcorrs.kind = (IF self.efficient_corr THEN "EfficientCorrBlock"
                                                 ELSE "CorrBlock")
        /\ fcorr_fn.kind = fcorrs.kind
        /\ uf_calls = (IF pc \in {"assemble", "update"} THEN itr ELSE itr + 1)

\* C10: within an iteration the correlation query, the update function, the
\* feature update, the coordinate update, the re-anchoring and the append
\* happen in this order, each changing only its own part of the state, and
\* the next iteration's correlation query comes after the append; the volume
\* sampled in iteration i is computed from the coords and track_feats that
\* iteration i - 1 left (the initial ones for i = 0), by the block chosen at
\* construction.
C10_StepOrder == [][C10_OrderStep]_vars /\ []C10_ReadsLeft

C10_Witness ==
    /\ pc = "assemble"
    /\ itr = 1
    /\ ~self.efficient_corr
    /\ hist[1].track_feats # init_track_feats(query_track_feat)
    /\ fcorrs.of = hist[1].track_feats
====
